---- MODULE Spec2Model ----
(***************************************************************************)
(* Model of the Sustainalytics foreign data wrapper (src/src/lib.rs):      *)
(* the token cache, the bearer GET with one retry on 401/403, the          *)
(* Skip/Take page cursor of the DataServices scan, the flattening of the   *)
(* FieldMappingDefinitions document, and the begin/iter/end scan session.  *)
(*                                                                         *)
(* Conventions.  A Rust Option is a sequence of length at most one         *)
(* (None == <<>>, Some(x) == <<x>>).  A Rust String is a sequence of       *)
(* one-character strings.  A JSON value is a record tagged by t; an HTTP   *)
(* body is the JSON value its text parses to, or Malformed when the text   *)
(* is no JSON.  FdwResult values are records with a field ok.              *)
(***************************************************************************)
EXTENDS Integers, Sequences, FiniteSets, TLC

DEFAULT_TAKE == 10
MAX_TAKE == 10

\* ------------------------------------------------------------- bounds
\* number of distinct access tokens the token endpoint can issue
MaxTok == 2
\* a scan stops asking for pages once skip has reached MaxPages * take
MaxPages == 2
\* size of the largest fixed upstream data set
MaxRows == 7
\* size of the largest page of a changing upstream data set
MaxItems == 3
\* size of the data set of the flaky API
FlakyRows == 3
\* largest number of roots, groups, subgroups and leaves per parent
MaxRoots == 2
MaxGroups == 2
MaxSubgroups == 2
MaxLeaves == 2
\* longest Take text built from the alphabet, and largest number written out
MaxTakeLen == 3
MaxTakeNum == 12
\* number of calls each of the concurrent callers makes
MaxCalls == 2

\* ------------------------------------------------------------- values
Min(a, b) == IF a < b THEN a ELSE b
Max(a, b) == IF a > b THEN a ELSE b

None == <<>>
Some(x) == <<x>>

JNull == [t |-> "null"]
JNum(n) == [t |-> "num", v |-> n]
JStr(s) == [t |-> "str", v |-> s]
JArr(a) == [t |-> "arr", v |-> a]
JObj(f) == [t |-> "obj", v |-> f]
Malformed == [t |-> "malformed"]

\* serde_json Value::get(key): Some(member) of an object that has the key
Get(j, k) == IF j.t = "obj" /\ k \in DOMAIN j.v THEN Some(j.v[k]) ELSE None
\* Option::and_then(Value::as_i64)
AsI64(o) == IF o # None /\ o[1].t = "num" THEN Some(o[1].v) ELSE None
\* Option::and_then(Value::as_str).map(to_string)
AsStr(o) == IF o # None /\ o[1].t = "str" THEN Some(o[1].v) ELSE None
\* Option::and_then(Value::as_array).cloned().unwrap_or_default()
AsArrayOrEmpty(o) == IF o # None /\ o[1].t = "arr" THEN o[1].v ELSE <<>>

RECURSIVE Digits(_)
\* format!("{}", n) of a non-negative integer
Digits(n) ==
    LET d == <<"0", "1", "2", "3", "4", "5", "6", "7", "8", "9">>
    IN  IF n < 10 THEN <<d[n + 1]>> ELSE Digits(n \div 10) \o <<d[(n % 10) + 1]>>

\* format!("{}", n) of an i64
FormatI64(n) == IF n < 0 THEN <<"-">> \o Digits(-n) ELSE Digits(n)

DigitValue(c) ==
    CASE c = "0" -> 0 [] c = "1" -> 1 [] c = "2" -> 2 [] c = "3" -> 3 [] c = "4" -> 4
      [] c = "5" -> 5 [] c = "6" -> 6 [] c = "7" -> 7 [] c = "8" -> 8 [] c = "9" -> 9
      [] OTHER -> -1

RECURSIVE ParseDigits(_, _)
\* value of a digit string, -1 when a character is no digit
ParseDigits(s, acc) ==
    IF s = <<>> THEN acc
    ELSE IF DigitValue(Head(s)) < 0 THEN -1
    ELSE ParseDigits(Tail(s), 10 * acc + DigitValue(Head(s)))

RECURSIVE Encode(_)
\* urlencoding::encode: unreserved characters stay, the others become %XX
Encode(s) ==
    IF s = <<>> THEN <<>>
    ELSE (CASE Head(s) = "," -> <<"%", "2", "C">>
            [] Head(s) = " " -> <<"%", "2", "0">>
            [] OTHER -> <<Head(s)>>) \o Encode(Tail(s))

\* ------------------------------------------------------------- HTTP
\* a response the transport never delivered: http::get / http::post returned Err
TransportError == [status |-> 0, body |-> Malformed]

Is2xx(status) == status >= 200 /\ status < 300

TokenBody(tok) ==
    JObj([access_token |-> JStr(tok), expires_in |-> JNum(3600), token_type |-> JStr(<<"B">>)])

\* serde_json::from_str::<TokenResponse>: access_token, expires_in and token_type
\* are required members of the right type, scope is optional
ParseTokenResponse(body) ==
    IF /\ body.t = "obj"
       /\ AsStr(Get(body, "access_token")) # None
       /\ AsI64(Get(body, "expires_in")) # None
       /\ AsStr(Get(body, "token_type")) # None
    THEN Some([access_token |-> AsStr(Get(body, "access_token"))[1]])
    ELSE None

\* one entry of the record of the HTTP exchange of a call: the request (method,
\* URL, bearer token) and of its response the status, the kind of body, for a
\* JSON array the number of elements (-1 otherwise), and the access token of a
\* token response
Exchange(m, url, bearer, resp) ==
    [m |-> m, url |-> url, bearer |-> bearer, status |-> resp.status,
     body |-> resp.body.t,
     items |-> IF resp.body.t = "arr" THEN Len(resp.body.v) ELSE -1,
     token |-> IF m = "POST" /\ Is2xx(resp.status) /\ ParseTokenResponse(resp.body) # None
               THEN Some(ParseTokenResponse(resp.body)[1].access_token) ELSE None]

TokenUrl == [path |-> "/auth/token", query |-> <<>>]

\* what get_json_with_bearer returned in a call: nothing when it was not called,
\* else an error, or the status and of the body the kind and the size
NotCalled == [called |-> FALSE, ok |-> FALSE, err |-> "", status |-> 0, body |-> "", items |-> -1]

\* A call's outcome: ok, the error message's kind, the value, the cached token
\* after the call, the HTTP exchange the call performed, and what its call of
\* get_json_with_bearer returned.
Ok(val, cached, log) ==
    [ok |-> TRUE, err |-> "", val |-> val, cached |-> cached, log |-> log, got |-> NotCalled]
Err(e, cached, log) ==
    [ok |-> FALSE, err |-> e, val |-> None, cached |-> cached, log |-> log, got |-> NotCalled]

\* the outcome x of a caller of get_json_with_bearer, which returned r
After(r, x) == [x EXCEPT !.got = r.got]

\* the outcome r of get_json_with_bearer, recorded as returned
Returned(r) ==
    [r EXCEPT !.got = [called |-> TRUE, ok |-> r.ok, err |-> r.err,
                       status |-> IF r.ok THEN r.val.status ELSE 0,
                       body |-> IF r.ok THEN r.val.json.t ELSE "",
                       items |-> IF r.ok /\ r.val.json.t = "arr" THEN Len(r.val.json.v)
                                 ELSE -1]]

\* self.cached_token = Some(tr.access_token.clone()), were it to keep a token
\* that is cached already
TokenStored_keeps_cached(cached, tok) == IF cached # None THEN cached ELSE Some(tok)

\* self.cached_token = Some(tr.access_token.clone()): the cache after it
TokenStored(cached, tok) == Some(tok)

\* fetch_token: POST the client credentials; p is the token endpoint's response
fetch_token(cached, p) ==
    LET log == <<Exchange("POST", TokenUrl, None, p)>>
        tr == ParseTokenResponse(p.body)
    IN  IF p.status = 0 THEN Err("transport", cached, log)
        ELSE IF ~Is2xx(p.status) THEN Err("auth failed", cached, log)
        ELSE IF tr = None THEN Err("invalid auth json", cached, log)
        ELSE Ok(tr[1].access_token, TokenStored(cached, tr[1].access_token), log)

\* ensure_token, were it to fetch a token whether or not one is cached
ensure_token_always_fetches(cached, p) == fetch_token(cached, p)

\* ensure_token: the cached token, else fetch_token
ensure_token(cached, p) ==
    IF cached # None THEN Ok(cached[1], cached, <<>>) ELSE fetch_token(cached, p)

\* serde_json::from_str of a response body
ParseJson(body) == IF body.t = "malformed" THEN None ELSE Some(body)

\* bearer GET of url with the token; g is the server's response
BearerGet(url, token, g) == Exchange("GET", url, Some(token), g)

\* status == 401 || status == 403, were it any status from 400 on
NeedsRefresh_any_error(status) == status >= 400

\* status == 401 || status == 403
NeedsRefresh(status) == status = 401 \/ status = 403

\* get_json_with_bearer from the response g2 to the second GET on: log3 is the
\* exchange up to it
SecondResponse(e2, env, log3) ==
    IF env.g2.status = 0 THEN Err("transport", e2.cached, log3)
    ELSE IF ParseJson(env.g2.body) = None THEN Err("invalid json", e2.cached, log3)
    ELSE Ok([status |-> env.g2.status, json |-> env.g2.body], e2.cached, log3)

\* get_json_with_bearer from the second ensure_token on, whose outcome is e2
SecondRequest(e2, url, env, log2) ==
    IF ~e2.ok THEN Err(e2.err, e2.cached, log2 \o e2.log)
    ELSE SecondResponse(e2, env, log2 \o e2.log \o <<BearerGet(url, e2.val, env.g2)>>)

\* the same, were a failed refresh to empty the cache
Refreshed_drops_token(f, url, env, log1) ==
    IF ~f.ok THEN Err(f.err, None, log1 \o f.log)
    ELSE SecondRequest(ensure_token(f.cached, TransportError), url, env, log1 \o f.log)

\* get_json_with_bearer from the fetch_token after a 401 or 403 on, whose
\* outcome is f
Refreshed(f, url, env, log1) ==
    IF ~f.ok THEN Err(f.err, f.cached, log1 \o f.log)
    ELSE SecondRequest(ensure_token(f.cached, TransportError), url, env, log1 \o f.log)

\* get_json_with_bearer from the response g1 to the first GET on
FirstResponse(e, url, env, log1) ==
    IF env.g1.status = 0 THEN Err("transport", e.cached, log1)
    ELSE IF NeedsRefresh(env.g1.status)
         THEN Refreshed(fetch_token(e.cached, env.p2), url, env, log1)
    ELSE IF ParseJson(env.g1.body) = None THEN Err("invalid json", e.cached, log1)
    ELSE Ok([status |-> env.g1.status, json |-> env.g1.body], e.cached, log1)

\* get_json_with_bearer from the first ensure_token on, whose outcome is e
FirstRequest(e, url, env) ==
    IF ~e.ok THEN e
    ELSE FirstResponse(e, url, env, e.log \o <<BearerGet(url, e.val, env.g1)>>)

\* get_json_with_bearer: env holds the responses the servers give to the
\* requests of this call, in order: p1 to the token POST of ensure_token,
\* g1 to the first GET, p2 to the token POST after a 401/403, g2 to the
\* second GET.
get_json_with_bearer(cached, url, env) ==
    Returned(FirstRequest(ensure_token(cached, env.p1), url, env))

\* ------------------------------------------------------------- DataServices
RECURSIVE AllDigits(_)
AllDigits(s) == s = <<>> \/ (DigitValue(Head(s)) >= 0 /\ AllDigits(Tail(s)))

\* str::parse::<i64>: an optional sign and at least one digit, nothing else;
\* a value outside i64 is an error.  Values of ten digits and more stand as
\* 10^9 (they only matter as "not less than MAX_TAKE"); twenty digits overflow.
ParseI64(s) ==
    LET signed == s # <<>> /\ Head(s) \in {"+", "-"}
        digits == IF signed THEN Tail(s) ELSE s
        mag == IF Len(digits) > 9 THEN 1000000000 ELSE ParseDigits(digits, 0)
    IN  IF digits = <<>> \/ ~AllDigits(digits) \/ Len(digits) >= 20 THEN None
        ELSE IF signed /\ Head(s) = "-" THEN Some(-mag) ELSE Some(mag)

\* normalize_take without its two bounds
normalize_take_unclamped(raw) ==
    IF raw = None \/ ParseI64(raw[1]) = None THEN DEFAULT_TAKE ELSE ParseI64(raw[1])[1]

\* normalize_take
normalize_take(raw) ==
    IF raw = None THEN DEFAULT_TAKE
    ELSE IF ParseI64(raw[1]) = None THEN DEFAULT_TAKE
    ELSE IF ParseI64(raw[1])[1] < 1 THEN DEFAULT_TAKE
    ELSE IF ParseI64(raw[1])[1] < MAX_TAKE THEN ParseI64(raw[1])[1] ELSE MAX_TAKE

OptionalPart(key, o) == IF o = None THEN <<>> ELSE << <<key, Encode(o[1])>> >>

\* build_dataservices_url (the base URL is left out of the modelled URL)
build_dataservices_url(p, skip) ==
    [path |-> "/v2/DataService",
     query |-> << <<"ProductId", Encode(p.product_id)>>,
                  <<"Skip", FormatI64(skip)>>,
                  <<"Take", FormatI64(p.take)>> >>
               \o OptionalPart("PackageIds", p.package_ids)
               \o OptionalPart("FieldClusterIds", p.field_cluster_ids)
               \o OptionalPart("FieldIds", p.field_ids)]

\* the DataServicesScan a begin_scan starts from
NewDataServicesScan(params) ==
    [kind |-> "DataServices", params |-> params, skip |-> 0, page_rows |-> <<>>,
     page_idx |-> 0, done |-> FALSE]

\* (scan.page_rows.len() as i64) < scan.params.take, were a page of Take - 1
\* elements to count as full
PageIsShort_below_take_minus_1(n, take) == n < take - 1

\* (scan.page_rows.len() as i64) < scan.params.take, were a page of exactly
\* Take elements to count as short
PageIsShort_on_le(n, take) == n <= take

\* (scan.page_rows.len() as i64) < scan.params.take
PageIsShort(n, take) == n < take

\* scan.skip after a page, were it to stay where it is after a full page
SkipAfterPage_not_advanced(skip, short, take) == skip

\* scan.skip after a page, were it to move on by one element after a full page
SkipAfterPage_advances_by_one(skip, short, take) == IF short THEN skip ELSE skip + 1

\* scan.skip after a page: else { scan.skip += scan.params.take; }
SkipAfterPage(skip, short, take) == IF short THEN skip ELSE skip + take

\* load_dataservices_page from the return of get_json_with_bearer on, whose
\* outcome is r: the scan after the load, in val
PageLoaded(scan, r) ==
    IF ~r.ok THEN r
    ELSE IF ~Is2xx(r.val.status)
         THEN After(r, Err("DataServices failed", r.cached, r.log))
    ELSE IF r.val.json.t # "arr"
         THEN After(r, Err("DataServices response not an array", r.cached, r.log))
    ELSE After(r, Ok([scan EXCEPT
                        !.page_rows = r.val.json.v,
                        !.page_idx = 0,
                        !.done = PageIsShort(Len(r.val.json.v), scan.params.take),
                        !.skip = SkipAfterPage(@, PageIsShort(Len(r.val.json.v),
                                                              scan.params.take),
                                               scan.params.take)],
                     r.cached, r.log))

\* load_dataservices_page: the scan after the load, in val
load_dataservices_page(cached, scan, env) ==
    IF scan.done THEN Ok(scan, cached, <<>>)
    ELSE PageLoaded(scan,
                    get_json_with_bearer(cached,
                                         build_dataservices_url(scan.params, scan.skip),
                                         env))

\* ensure_dataservices_rows
ensure_dataservices_rows(cached, scan, env) ==
    IF scan.page_idx < Len(scan.page_rows) THEN Ok(scan, cached, <<>>)
    ELSE IF scan.done THEN Ok(scan, cached, <<>>)
    ELSE load_dataservices_page(cached, scan, env)

\* ------------------------------------------------------------- FieldMappingDefinitions
RECURSIVE EscapeJson(_)
\* serde_json's escaping of a string: \" for a quote, \\ for a backslash
EscapeJson(s) ==
    IF s = <<>> THEN <<>>
    ELSE (CASE Head(s) = "\"" -> <<"\\", "\"">>
            [] Head(s) = "\\" -> <<"\\", "\\">>
            [] OTHER -> <<Head(s)>>) \o EscapeJson(Tail(s))

\* Value::to_string of a number, a string or null (the values a productId takes)
JsonText(j) ==
    CASE j.t = "num" -> FormatI64(j.v)
      [] j.t = "str" -> <<"\"">> \o EscapeJson(j.v) \o <<"\"">>
      [] OTHER -> <<"n", "u", "l", "l">>

RECURSIVE TrimStartQuotes(_)
TrimStartQuotes(s) ==
    IF s # <<>> /\ Head(s) = "\"" THEN TrimStartQuotes(Tail(s)) ELSE s

RECURSIVE TrimEndQuotes(_)
TrimEndQuotes(s) ==
    IF s # <<>> /\ s[Len(s)] = "\"" THEN TrimEndQuotes(SubSeq(s, 1, Len(s) - 1)) ELSE s

\* str::trim_matches('"')
TrimQuotes(s) == TrimEndQuotes(TrimStartQuotes(s))

\* prod.get("productId").map(|v| v.to_string().trim_matches('"').to_string()).unwrap_or_default()
ProductIdOf(prod) ==
    IF Get(prod, "productId") = None THEN <<>>
    ELSE TrimQuotes(JsonText(Get(prod, "productId")[1]))

\* the FieldMappingRow pushed for definition d under product, package, cluster
FieldMappingRow(prod, pkg, cl, d) ==
    [product_id |-> ProductIdOf(prod),
     product_name |-> AsStr(Get(prod, "productName")),
     package_id |-> AsI64(Get(pkg, "packageId")),
     package_name |-> AsStr(Get(pkg, "packageName")),
     field_cluster_id |-> AsI64(Get(cl, "fieldClusterId")),
     field_cluster_name |-> AsStr(Get(cl, "fieldClusterName")),
     field_id |-> AsI64(Get(d, "fieldId")),
     field_name |-> AsStr(Get(d, "fieldName")),
     description |-> AsStr(Get(d, "description")),
     field_type |-> AsStr(Get(d, "fieldType")),
     field_length |-> AsStr(Get(d, "fieldLength")),
     possible_values |-> AsStr(Get(d, "possibleValues")),
     grouping |-> AsStr(Get(d, "grouping")),
     parentage |-> Get(d, "parentage")]

RECURSIVE RowsOfDefinitions(_, _, _, _)
\* for d in defs { out.push(...) }
RowsOfDefinitions(prod, pkg, cl, defs) ==
    IF defs = <<>> THEN <<>>
    ELSE <<FieldMappingRow(prod, pkg, cl, Head(defs))>>
         \o RowsOfDefinitions(prod, pkg, cl, Tail(defs))

RECURSIVE RowsOfClusters(_, _, _)
\* for cl in clusters { ... }
RowsOfClusters(prod, pkg, clusters) ==
    IF clusters = <<>> THEN <<>>
    ELSE RowsOfDefinitions(prod, pkg, Head(clusters),
                           AsArrayOrEmpty(Get(Head(clusters), "fieldDefinitions")))
         \o RowsOfClusters(prod, pkg, Tail(clusters))

RECURSIVE RowsOfPackages(_, _)
\* for pkg in packages { ... }
RowsOfPackages(prod, packages) ==
    IF packages = <<>> THEN <<>>
    ELSE RowsOfClusters(prod, Head(packages), AsArrayOrEmpty(Get(Head(packages), "clusters")))
         \o RowsOfPackages(prod, Tail(packages))

RECURSIVE RowsOfProducts_first_package_only(_)
\* the loop over the products, were it to visit the first package of each only
RowsOfProducts_first_package_only(products) ==
    IF products = <<>> THEN <<>>
    ELSE RowsOfPackages(Head(products),
                        IF AsArrayOrEmpty(Get(Head(products), "packages")) = <<>> THEN <<>>
                        ELSE <<Head(AsArrayOrEmpty(Get(Head(products), "packages")))>>)
         \o RowsOfProducts_first_package_only(Tail(products))

RECURSIVE RowsOfProducts(_)
\* for prod in products { ... }: the rows pushed to out, in push order
RowsOfProducts(products) ==
    IF products = <<>> THEN <<>>
    ELSE RowsOfPackages(Head(products), AsArrayOrEmpty(Get(Head(products), "packages")))
         \o RowsOfProducts(Tail(products))

FieldMappingUrl == [path |-> "/v2/FieldMappingDefinitions", query |-> <<>>]

\* load_field_mapping_definitions from the return of get_json_with_bearer on,
\* whose outcome is r: the rows, in val
DefinitionsLoaded(r) ==
    IF ~r.ok THEN r
    ELSE IF ~Is2xx(r.val.status)
         THEN After(r, Err("FieldMappingDefinitions failed", r.cached, r.log))
    ELSE IF r.val.json.t # "arr"
         THEN After(r, Err("FieldMappingDefinitions not an array", r.cached, r.log))
    ELSE After(r, Ok(RowsOfProducts(r.val.json.v), r.cached, r.log))

\* load_field_mapping_definitions: the rows, in val
load_field_mapping_definitions(cached, env) ==
    DefinitionsLoaded(get_json_with_bearer(cached, FieldMappingUrl, env))

\* ------------------------------------------------------------- column projection
CellString(s) == [c |-> "String", v |-> s]
CellI64(n) == [c |-> "I64", v |-> n]
\* Cell::Jsonb(v.to_string()): the text is kept as the value it serialises
CellJsonb(j) == [c |-> "Jsonb", json |-> j]

MapCell(o, Ctor(_)) == IF o = None THEN None ELSE Some(Ctor(o[1]))

DataServicesColumns == {"entityId", "entityName", "fields"}

\* the match of the DataServices arm: the cell of column col of element src
DataServicesCell(src, col) ==
    CASE col = "entityId" ->
           IF Get(src, "entityId") = None THEN None
           ELSE Some(CellString(TrimQuotes(JsonText(Get(src, "entityId")[1]))))
      [] col = "entityName" -> MapCell(AsStr(Get(src, "entityName")), CellString)
      [] OTHER -> MapCell(Get(src, "fields"), CellJsonb)

FieldMappingColumns ==
    {"product_id", "product_name", "package_id", "package_name", "field_cluster_id",
     "field_cluster_name", "field_id", "field_name", "description", "field_type",
     "field_length", "possible_values", "grouping", "parentage"}

\* the match of the FieldMappingDefinitions arm: the cell of column col of row r
FieldMappingCell(r, col) ==
    CASE col = "product_id" -> Some(CellString(r.product_id))
      [] col \in {"package_id", "field_cluster_id", "field_id"} -> MapCell(r[col], CellI64)
      [] col = "parentage" -> MapCell(r.parentage, CellJsonb)
      [] OTHER -> MapCell(r[col], CellString)

\* the columns the arm of iter_scan for a scan of this kind supports
SupportedColumns(kind) ==
    IF kind = "DataServices" THEN DataServicesColumns ELSE FieldMappingColumns

\* the cell that arm makes of column col of src
CellOf(kind, src, col) ==
    IF kind = "DataServices" THEN DataServicesCell(src, col) ELSE FieldMappingCell(src, col)

RECURSIVE PushColumns(_, _, _, _)
\* for col in ctx.get_columns() { let cell = match ...; row.push(cell) }:
\* the cells pushed so far, and the column the loop returned an error for
PushColumns(cols, kind, src, pushed) ==
    IF cols = <<>> THEN [ok |-> TRUE, cells |-> pushed, bad |-> ""]
    ELSE IF Head(cols) \notin SupportedColumns(kind)
         THEN [ok |-> FALSE, cells |-> pushed, bad |-> Head(cols)]
    ELSE PushColumns(Tail(cols), kind, src, Append(pushed, CellOf(kind, src, Head(cols))))

\* ------------------------------------------------------------- scan session
ScanNone == [kind |-> "None"]

AllowedDataServicesOptions ==
    {"endpoint", "ProductId", "PackageIds", "FieldClusterIds", "FieldIds", "Take"}

\* topts.get(key).map(|s| s.to_string())
OptionOf(topts, k) == IF k \in DOMAIN topts THEN Some(topts[k]) ELSE None

\* the outcome of begin_scan: the FdwResult, the instance's fields after the
\* call and the HTTP exchange of the call
BeginOutcome(ok, err, cached, scan, log) ==
    [ok |-> ok, err |-> err, cached |-> cached, scan |-> scan, log |-> log, got |-> NotCalled]

\* the DataServicesParams begin_scan builds of the table options
ParamsOf(topts) ==
    [product_id |-> topts["ProductId"],
     package_ids |-> OptionOf(topts, "PackageIds"),
     field_cluster_ids |-> OptionOf(topts, "FieldClusterIds"),
     field_ids |-> OptionOf(topts, "FieldIds"),
     take |-> normalize_take(OptionOf(topts, "Take"))]

\* fdw.load_dataservices_page(&mut scan)?; fdw.scan = ScanState::DataServices(scan):
\* r is the outcome of the load, scan the scan state held before
DataServicesBegun(scan, r) ==
    IF ~r.ok THEN After(r, BeginOutcome(FALSE, r.err, r.cached, scan, r.log))
    ELSE After(r, BeginOutcome(TRUE, "", r.cached, r.val, r.log))

\* let rows = fdw.load_field_mapping_definitions()?; fdw.scan = ...:
\* r is the outcome of the load, scan the scan state held before
FieldMappingDefinitionsBegun(scan, r) ==
    IF ~r.ok THEN After(r, BeginOutcome(FALSE, r.err, r.cached, scan, r.log))
    ELSE After(r, BeginOutcome(TRUE, "", r.cached,
                               [kind |-> "FieldMappingDefinitions", rows |-> r.val, idx |-> 0],
                               r.log))

\* the arm of an unknown endpoint, were its message not to name the endpoint
UnknownEndpoint_unnamed(cached, scan, other) ==
    BeginOutcome(FALSE, "unknown endpoint", cached, scan, <<>>)

\* other => Err(format!("unknown endpoint: {}", other).into())
UnknownEndpoint(cached, scan, other) ==
    BeginOutcome(FALSE, "unknown endpoint: " \o other, cached, scan, <<>>)

\* begin_scan: topts are the table options, a function from option names to values
begin_scan(cached, scan, topts, env) ==
    IF "endpoint" \notin DOMAIN topts
    THEN BeginOutcome(FALSE, "missing table option endpoint", cached, scan, <<>>)
    ELSE IF topts["endpoint"] = "DataServices" THEN
        IF DOMAIN topts \ AllowedDataServicesOptions # {}
        THEN BeginOutcome(FALSE, "unsupported table option for DataServices", cached, scan, <<>>)
        ELSE IF "ProductId" \notin DOMAIN topts
        THEN BeginOutcome(FALSE, "missing required table option ProductId", cached, scan, <<>>)
        ELSE DataServicesBegun(scan,
                               load_dataservices_page(cached,
                                                      NewDataServicesScan(ParamsOf(topts)),
                                                      env))
    ELSE IF topts["endpoint"] = "FieldMappingDefinitions"
    THEN FieldMappingDefinitionsBegun(scan, load_field_mapping_definitions(cached, env))
    ELSE UnknownEndpoint(cached, scan, topts["endpoint"])

\* the outcome of iter_scan: Ok(Some(0)) is out = "row", Ok(None) is out = "end";
\* cells are the cells pushed to the host's row, bad the unsupported column
IterOutcome(ok, err, out, cached, scan, log, cells, bad) ==
    [ok |-> ok, err |-> err, out |-> out, cached |-> cached, scan |-> scan, log |-> log,
     cells |-> cells, bad |-> bad, got |-> NotCalled]

\* the DataServices arm from the loop on, were page_idx to move on by two
DataServicesPushed_skips_one(r, pushed) ==
    IF ~pushed.ok
    THEN After(r, IterOutcome(FALSE, "unsupported column for DataServices", "", r.cached,
                              r.val, r.log, pushed.cells, pushed.bad))
    ELSE After(r, IterOutcome(TRUE, "", "row", r.cached, [r.val EXCEPT !.page_idx = @ + 2],
                              r.log, pushed.cells, ""))

\* the DataServices arm from the loop over the columns on: r is the outcome of
\* ensure_dataservices_rows, pushed that of the loop
DataServicesPushed(r, pushed) ==
    IF ~pushed.ok
    THEN After(r, IterOutcome(FALSE, "unsupported column for DataServices", "", r.cached,
                              r.val, r.log, pushed.cells, pushed.bad))
    ELSE After(r, IterOutcome(TRUE, "", "row", r.cached, [r.val EXCEPT !.page_idx = @ + 1],
                              r.log, pushed.cells, ""))

\* the DataServices arm from the return of ensure_dataservices_rows on, were
\* a failed load to leave the scan with the page emptied
DataServicesRow_empties_page(r, scan, cols) ==
    IF ~r.ok THEN After(r, IterOutcome(FALSE, r.err, "", r.cached,
                                       [scan EXCEPT !.page_rows = <<>>, !.page_idx = 0],
                                       r.log, <<>>, ""))
    ELSE IF r.val.page_idx >= Len(r.val.page_rows)
    THEN After(r, IterOutcome(TRUE, "", "end", r.cached, r.val, r.log, <<>>, ""))
    ELSE DataServicesPushed(r, PushColumns(cols, "DataServices",
                                           r.val.page_rows[r.val.page_idx + 1], <<>>))

\* the DataServices arm from the return of ensure_dataservices_rows on, whose
\* outcome is r; scan is the scan state held before
DataServicesRow(r, scan, cols) ==
    IF ~r.ok THEN After(r, IterOutcome(FALSE, r.err, "", r.cached, scan, r.log, <<>>, ""))
    ELSE IF r.val.page_idx >= Len(r.val.page_rows)
    THEN After(r, IterOutcome(TRUE, "", "end", r.cached, r.val, r.log, <<>>, ""))
    ELSE DataServicesPushed(r, PushColumns(cols, "DataServices",
                                           r.val.page_rows[r.val.page_idx + 1], <<>>))

\* the DataServices arm of iter_scan
IterDataServices(cached, scan, cols, env) ==
    DataServicesRow(ensure_dataservices_rows(cached, scan, env), scan, cols)

\* the FieldMappingDefinitions arm from the loop over the columns on
FieldMappingDefinitionsPushed(cached, scan, pushed) ==
    IF ~pushed.ok
    THEN IterOutcome(FALSE, "unsupported column for FieldMappingDefinitions", "", cached,
                     scan, <<>>, pushed.cells, pushed.bad)
    ELSE IterOutcome(TRUE, "", "row", cached, [scan EXCEPT !.idx = @ + 1], <<>>,
                     pushed.cells, "")

\* the FieldMappingDefinitions arm of iter_scan
IterFieldMappingDefinitions(cached, scan, cols) ==
    IF scan.idx >= Len(scan.rows)
    THEN IterOutcome(TRUE, "", "end", cached, scan, <<>>, <<>>, "")
    ELSE FieldMappingDefinitionsPushed(cached, scan,
                                       PushColumns(cols, "FieldMappingDefinitions",
                                                   scan.rows[scan.idx + 1], <<>>))

\* iter_scan: cols are the names of the columns the host asks for
iter_scan(cached, scan, cols, env) ==
    CASE scan.kind = "DataServices" -> IterDataServices(cached, scan, cols, env)
      [] scan.kind = "FieldMappingDefinitions" -> IterFieldMappingDefinitions(cached, scan, cols)
      [] OTHER -> IterOutcome(TRUE, "", "end", cached, scan, <<>>, <<>>, "")

\* end_scan, were it to leave the scan state alone
end_scan_keeps_scan(scan) == scan

\* end_scan
end_scan(scan) == ScanNone

\* ------------------------------------------------------------- state
VARIABLES
    cached_token,   \* SustainalyticsFdw.cached_token
    scan,           \* SustainalyticsFdw.scan
    upstream,       \* what the remote API holds: the data set and the document
    log,            \* the HTTP exchange of the last call
    op,             \* the last call and what it returned to the host
    sink,           \* the cells the last call pushed to the host's row
    fetched,        \* what get_json_with_bearer returned in the last call
    history,        \* what happened to the scan state held, since it was begun
    lock,           \* the caller that holds the mutex around the instance, if any
    callers         \* the concurrent callers: where each is in its call

vars == <<cached_token, scan, upstream, log, op, sink, fetched, history, lock, callers>>

\* ------------------------------------------------------------- the remote API
QueryValue(url, key) ==
    LET i == CHOOSE i \in 1..Len(url.query) : url.query[i][1] = key IN url.query[i][2]

SkipOf(url) == ParseDigits(QueryValue(url, "Skip"), 0)
TakeOf(url) == ParseDigits(QueryValue(url, "Take"), 0)

\* element k of the DataService listing; every second one has no entityName
UpstreamItem(k) ==
    JObj([f \in (IF k % 2 = 0 THEN {"entityId", "fields"}
                 ELSE {"entityId", "entityName", "fields"}) |->
            CASE f = "entityId" -> JStr(<<"E">> \o Digits(k))
              [] f = "entityName" -> JStr(<<"N">> \o Digits(k))
              [] OTHER -> JObj([score |-> JNum(k)])])

ListingPage(skip, n) == JArr([i \in 1..n |-> UpstreamItem(skip + i)])

\* The page sizes the listing answers with.  A fixed data set of totalRows
\* elements is served in pages of size Take from offset Skip.  A changing one
\* answers with any number of elements up to MaxItems, also one more than
\* Take; from offset MaxPages * Take on its pages are short.
PageSizes(skip, take) ==
    IF upstream.fixed THEN {Min(take, Max(0, upstream.totalRows - skip))}
    ELSE {n \in 0..Min(take + 1, MaxItems) : skip >= MaxPages * take => n < take}

ErrorBody == JObj([message |-> JStr(<<"e">>)])

\* The answers that are no 2xx JSON array, for any GET.  A steady API fails
\* with 500 or rejects the token with 401; an unrejecting one fails with 500
\* only; a flaky one also answers 403, sends bodies that are no JSON or no
\* array, and loses connections; a sound one always answers.
GetFaults ==
    IF upstream.api = "sound" THEN {}
    ELSE IF upstream.api = "unrejecting" THEN {[status |-> 500, body |-> ErrorBody]}
    ELSE IF upstream.api = "steady"
    THEN {[status |-> 500, body |-> ErrorBody], [status |-> 401, body |-> ErrorBody]}
    ELSE {[status |-> 200, body |-> ErrorBody], [status |-> 200, body |-> Malformed],
          [status |-> 500, body |-> ErrorBody], [status |-> 500, body |-> Malformed],
          [status |-> 401, body |-> ErrorBody], [status |-> 403, body |-> ErrorBody],
          TransportError}

\* the i-th access token
Token(i) == <<"t", Digits(i)[1]>>

\* number of tokens the token endpoint issued in the exchange l
IssuedIn(l) == Cardinality({i \in 1..Len(l) : l[i].token # None})

\* The answers of the token endpoint when it has issued k tokens in this call
\* already: the next token in turn (every token it issues differs from the one
\* before); a flaky endpoint also fails with 500, answers 200 with a body that
\* is no JSON or lacks expires_in and token_type, and loses connections; that
\* of an unrejecting API also fails with 500.
PostResponses(k) ==
    {[status |-> 200, body |-> TokenBody(Token(((upstream.nextTok - 1 + k) % MaxTok) + 1))]}
    \cup (IF upstream.api = "unrejecting" THEN {[status |-> 500, body |-> ErrorBody]}
          ELSE IF upstream.api # "flaky" THEN {}
          ELSE {[status |-> 500, body |-> ErrorBody], [status |-> 200, body |-> Malformed],
                [status |-> 200, body |-> JObj([access_token |-> JStr(Token(1))])],
                TransportError})

\* The FieldMappingDefinitions document described by d: d.roots products, under
\* each d.groups packages, under each d.subs clusters, under each d.leaves field
\* definitions (with d.taper the i-th sibling has i - 1 children fewer); the
\* members named in d.absent are missing in every node that is the d.at-th of
\* its siblings.  Ids are numbers, or strings without quote or backslash.
Kids(d, n, i) == IF d.taper THEN Max(0, n - (i - 1)) ELSE n
Omitted(d, i) == IF i = d.at THEN d.absent ELSE {}

ProductIdAt(r) == IF r % 2 = 1 THEN JStr(<<"P">> \o Digits(r)) ELSE JNum(r)
PackageIdAt(r, g) == 10 * r + g
FieldClusterIdAt(r, g, c) == 100 * r + 10 * g + c
FieldIdAt(r, g, c, l) == 1000 * r + 100 * g + 10 * c + l

BuildDoc(d) ==
    LET Leaf(r, g, c, l) ==
            JObj([k \in {"fieldId", "fieldName", "description", "fieldType", "fieldLength",
                         "possibleValues", "grouping", "parentage"} \ Omitted(d, l) |->
                    CASE k = "fieldId" -> JNum(FieldIdAt(r, g, c, l))
                      [] k = "parentage" -> JArr(<<JNum(r), JNum(g), JNum(c)>>)
                      [] OTHER -> JStr(<<k, Digits(l)[1]>>)])
        Cluster(r, g, c) ==
            JObj([k \in {"fieldClusterId", "fieldClusterName", "fieldDefinitions"}
                        \ Omitted(d, c) |->
                    CASE k = "fieldClusterId" -> JNum(FieldClusterIdAt(r, g, c))
                      [] k = "fieldClusterName" -> JStr(<<"c">> \o Digits(c))
                      [] OTHER -> JArr([l \in 1..Kids(d, d.leaves, c) |-> Leaf(r, g, c, l)])])
        Package(r, g) ==
            JObj([k \in {"packageId", "packageName", "clusters"} \ Omitted(d, g) |->
                    CASE k = "packageId" -> JNum(PackageIdAt(r, g))
                      [] k = "packageName" -> JStr(<<"g">> \o Digits(g))
                      [] OTHER -> JArr([c \in 1..Kids(d, d.subs, g) |-> Cluster(r, g, c)])])
        Product(r) ==
            JObj([k \in {"productId", "productName", "packages"} \ Omitted(d, r) |->
                    CASE k = "productId" -> ProductIdAt(r)
                      [] k = "productName" -> JStr(<<"p">> \o Digits(r))
                      [] OTHER -> JArr([g \in 1..Kids(d, d.groups, r) |-> Package(r, g)])])
    IN  [r \in 1..d.roots |-> Product(r)]

\* the answers of the API to a GET of url
ServerGet(url) ==
    (IF url.path = "/v2/DataService"
     THEN {[status |-> 200, body |-> ListingPage(SkipOf(url), n)] :
             n \in PageSizes(SkipOf(url), TakeOf(url))}
     ELSE {[status |-> 200, body |-> JArr(BuildDoc(upstream.doc))]})
    \cup GetFaults

\* The responses of one call, in the order the call asks for them: p1 to the
\* token POST before the first GET, g1 to the first GET, p2 to the token POST
\* after it, g2 to the second GET.  A response the call never asks for stands
\* as TransportError; whether it asks is read off the exchange the call
\* performs when the later responses fail.
Responses(p1, g1, p2, g2) == [p1 |-> p1, g1 |-> g1, p2 |-> p2, g2 |-> g2]

GetsIn(l) == {i \in 1..Len(l) : l[i].m = "GET"}
PostsIn(l) == {i \in 1..Len(l) : l[i].m = "POST"}

FirstPostAnswers(l) ==
    IF l # <<>> /\ l[1].m = "POST" THEN PostResponses(0) ELSE {TransportError}
FirstGetAnswers(l) ==
    IF GetsIn(l) # {} THEN ServerGet(l[CHOOSE i \in GetsIn(l) : \A j \in GetsIn(l) : i <= j].url)
    ELSE {TransportError}
SecondPostAnswers(l) ==
    IF \E i \in GetsIn(l) : \E j \in PostsIn(l) : i < j THEN PostResponses(IssuedIn(l))
    ELSE {TransportError}
SecondGetAnswers(l) ==
    IF Cardinality(GetsIn(l)) >= 2 THEN ServerGet(l[Len(l)].url) ELSE {TransportError}

\* ------------------------------------------------------------- inputs
ProductABC == <<"A", "B", "C">>

\* the table options of the begin_scan calls
TableOptionChoices ==
    << [endpoint |-> "DataServices", ProductId |-> ProductABC],
       [endpoint |-> "DataServices", ProductId |-> ProductABC, Take |-> <<"2">>,
        PackageIds |-> <<"1", ",", "2">>],
       [endpoint |-> "DataServices", ProductId |-> ProductABC, Verbose |-> <<"1">>],
       [endpoint |-> "DataServices"],
       [endpoint |-> "FieldMappingDefinitions"],
       [endpoint |-> "Bogus"],
       [ProductId |-> ProductABC] >>

AllFieldMappingColumns ==
    <<"product_id", "product_name", "package_id", "package_name", "field_cluster_id",
      "field_cluster_name", "field_id", "field_name", "description", "field_type",
      "field_length", "possible_values", "grouping", "parentage">>

\* the column lists of the iter_scan calls on a table of the given endpoint
ColumnChoices(kind) ==
    IF kind = "FieldMappingDefinitions"
    THEN {AllFieldMappingColumns, <<"product_id", "bogus">>, <<"bogus", "product_id">>}
    ELSE {<<"entityId", "entityName", "fields">>, <<"entityId", "bogus">>,
          <<"bogus", "entityId">>}

\* the documents the API serves in the session specification
SessionDocs ==
    {[roots |-> 1, groups |-> 1, subs |-> 1, leaves |-> 2, taper |-> FALSE,
      absent |-> {}, at |-> 0]}

\* the members a node of the document can lack, in the cases taken
AbsentChoices ==
    {{"productId"}, {"packages"}, {"clusters"}, {"fieldDefinitions"},
     {"productName", "packageId", "fieldClusterName", "fieldId", "description",
      "parentage"},
     {"productId", "productName", "packageId", "packageName", "fieldClusterId",
      "fieldClusterName", "fieldId", "fieldName", "description", "fieldType",
      "fieldLength", "possibleValues", "grouping", "parentage"}}

\* The documents of the tree specification: every shape within the bounds,
\* even or tapering, with all members present; and the full shape with members
\* missing in the first or in the second sibling of every level.
TreeDocs ==
    {[roots |-> r, groups |-> g, subs |-> c, leaves |-> l, taper |-> t, absent |-> {},
      at |-> 0] :
        r \in 0..MaxRoots, g \in 0..MaxGroups, c \in 0..MaxSubgroups, l \in 0..MaxLeaves,
        t \in BOOLEAN}
    \cup {[roots |-> MaxRoots, groups |-> MaxGroups, subs |-> MaxSubgroups,
            leaves |-> MaxLeaves, taper |-> FALSE, absent |-> a, at |-> i] :
              a \in AbsentChoices, i \in 1..2}

\* ------------------------------------------------------------- bookkeeping
\* What the model records about the scan state held in scan, next to the
\* program's own fields:
\*   predates   the scan state held was built before the latest begin_scan call
\*   failed     a begin_scan or iter_scan call has failed since the scan state was built
\*   shortSeen  the API answered a page request of this scan with fewer than Take
\*   pages      number of pages the API delivered to this scan
\*   fullPages  number of those with at least Take elements
\*   issued     the access token the token endpoint issued last
NoHistory(issued) ==
    [predates |-> FALSE, failed |-> FALSE, shortSeen |-> FALSE, pages |-> 0, fullPages |-> 0,
     issued |-> issued]

\* the token issued last, after the exchange l
IssuedAfter(issued, l) ==
    LET got == {i \in PostsIn(l) : l[i].token # None}
    IN  IF got = {} THEN issued ELSE l[CHOOSE i \in got : \A j \in got : j <= i].token

\* the exchange l ended with the API delivering a page of the listing
PageDelivered(l) ==
    /\ l # <<>>
    /\ l[Len(l)].m = "GET"
    /\ l[Len(l)].url.path = "/v2/DataService"
    /\ Is2xx(l[Len(l)].status)
    /\ l[Len(l)].body = "arr"
ShortPage(l) == l[Len(l)].items < TakeOf(l[Len(l)].url)

\* the history of a scan state after a call that left it in place
HistoryAfter(h, ok, l) ==
    [h EXCEPT !.failed = @ \/ ~ok,
              !.shortSeen = @ \/ (PageDelivered(l) /\ ShortPage(l)),
              !.pages = IF PageDelivered(l) THEN @ + 1 ELSE @,
              !.fullPages = IF PageDelivered(l) /\ ~ShortPage(l) THEN @ + 1 ELSE @,
              !.issued = IssuedAfter(@, l)]

NoCells == [cells |-> <<>>, bad |-> ""]

\* ------------------------------------------------------------- specification
\* init: an instance without token and without scan; the API holds a fixed
\* data set of some size, or one that changes between requests
Init ==
    /\ cached_token = None
    /\ scan = ScanNone
    /\ upstream \in {[api |-> "steady", fixed |-> TRUE, totalRows |-> n, doc |-> d,
                       nextTok |-> 1] : n \in 0..MaxRows, d \in SessionDocs}
                    \cup {[api |-> "steady", fixed |-> FALSE, totalRows |-> 0, doc |-> d,
                           nextTok |-> 1] : d \in SessionDocs}
    /\ log = <<>>
    /\ op = [name |-> "init", ok |-> TRUE, err |-> "", out |-> ""]
    /\ sink = NoCells
    /\ fetched = NotCalled
    /\ history = NoHistory(None)
    /\ lock = None
    /\ callers = <<>>

\* the API after the exchange l: the token endpoint has moved on by the tokens issued
ApiAfter(l) == [upstream EXCEPT !.nextTok = ((@ - 1 + IssuedIn(l)) % MaxTok) + 1]

\* the host calls begin_scan with table options topts
Begin(topts) ==
    LET Call(env) == begin_scan(cached_token, scan, topts, env)
        T == TransportError
    IN  \E p1 \in FirstPostAnswers(Call(Responses(T, T, T, T)).log) :
        \E g1 \in FirstGetAnswers(Call(Responses(p1, T, T, T)).log) :
        \E p2 \in SecondPostAnswers(Call(Responses(p1, g1, T, T)).log) :
        \E g2 \in SecondGetAnswers(Call(Responses(p1, g1, p2, T)).log) :
        \E r \in {Call(Responses(p1, g1, p2, g2))} :
                /\ cached_token' = r.cached
                /\ scan' = r.scan
                /\ log' = r.log
                /\ op' = [name |-> "begin", ok |-> r.ok, err |-> r.err, out |-> ""]
                /\ sink' = NoCells
                /\ fetched' = r.got
                /\ history' =
                     IF r.ok THEN HistoryAfter(NoHistory(history.issued), TRUE, r.log)
                     ELSE [HistoryAfter(history, FALSE, r.log) EXCEPT
                              !.predates = scan.kind # "None"]
                /\ upstream' = ApiAfter(r.log)
                /\ UNCHANGED <<lock, callers>>

BeginScan == \E i \in DOMAIN TableOptionChoices : Begin(TableOptionChoices[i])

\* the host calls iter_scan for the columns cols
Iter(cols) ==
    LET Call(env) == iter_scan(cached_token, scan, cols, env)
        T == TransportError
    IN  \E p1 \in FirstPostAnswers(Call(Responses(T, T, T, T)).log) :
        \E g1 \in FirstGetAnswers(Call(Responses(p1, T, T, T)).log) :
        \E p2 \in SecondPostAnswers(Call(Responses(p1, g1, T, T)).log) :
        \E g2 \in SecondGetAnswers(Call(Responses(p1, g1, p2, T)).log) :
        \E r \in {Call(Responses(p1, g1, p2, g2))} :
                /\ cached_token' = r.cached
                /\ scan' = r.scan
                /\ log' = r.log
                /\ op' = [name |-> "next", ok |-> r.ok, err |-> r.err, out |-> r.out]
                /\ sink' = [cells |-> r.cells, bad |-> r.bad]
                /\ fetched' = r.got
                /\ history' = HistoryAfter(history, r.ok, r.log)
                /\ upstream' = ApiAfter(r.log)
                /\ UNCHANGED <<lock, callers>>

IterScan == \E cols \in ColumnChoices(scan.kind) : Iter(cols)

\* the host calls end_scan
EndScan ==
    /\ scan' = end_scan(scan)
    /\ log' = <<>>
    /\ op' = [name |-> "end", ok |-> TRUE, err |-> "", out |-> ""]
    /\ sink' = NoCells
    /\ fetched' = NotCalled
    /\ history' = NoHistory(history.issued)
    /\ UNCHANGED <<cached_token, upstream, lock, callers>>

Next == BeginScan \/ IterScan \/ EndScan

Spec == Init /\ [][Next]_vars

\* The same instance against a flaky API: every request can fail in every way;
\* the data set is fixed and has FlakyRows elements.
InitFlaky ==
    /\ cached_token = None
    /\ scan = ScanNone
    /\ upstream \in {[api |-> "flaky", fixed |-> TRUE, totalRows |-> FlakyRows, doc |-> d,
                      nextTok |-> 1] : d \in SessionDocs}
    /\ log = <<>>
    /\ op = [name |-> "init", ok |-> TRUE, err |-> "", out |-> ""]
    /\ sink = NoCells
    /\ fetched = NotCalled
    /\ history = NoHistory(None)
    /\ lock = None
    /\ callers = <<>>

SpecFlaky == InitFlaky /\ [][Next]_vars

\* The same instance against a sound API that serves one of the documents of
\* TreeDocs; the host scans the FieldMappingDefinitions table, one scan after
\* the other.
InitTree ==
    /\ cached_token = None
    /\ scan = ScanNone
    /\ upstream \in {[api |-> "sound", fixed |-> TRUE, totalRows |-> 0, doc |-> d,
                      nextTok |-> 1] : d \in TreeDocs}
    /\ log = <<>>
    /\ op = [name |-> "init", ok |-> TRUE, err |-> "", out |-> ""]
    /\ sink = NoCells
    /\ fetched = NotCalled
    /\ history = NoHistory(None)
    /\ lock = None
    /\ callers = <<>>

\* the host begins a scan of the table when none is under way
BeginTree == scan = ScanNone /\ Begin([endpoint |-> "FieldMappingDefinitions"])

NextTree == BeginTree \/ IterScan \/ EndScan

SpecTree == InitTree /\ [][NextTree]_vars

\* ------------------------------------------------------------- properties
\* index of the first GET of the exchange l, and the POSTs after index i
FirstGet(l) == CHOOSE i \in GetsIn(l) : \A j \in GetsIn(l) : i <= j
PostsAfter(l, i) == {j \in PostsIn(l) : j > i}

\* the response x rejects the token
Rejected(x) == x.status = 401 \/ x.status = 403

\* get_json_with_bearer returned the status and the parsed body of the response x
ReturnedResponse(x) ==
    /\ fetched.ok
    /\ fetched.status = x.status
    /\ fetched.body = x.body
    /\ fetched.items = x.items

\* get_json_with_bearer returned what the response x allows: an error when the
\* connection failed or the body is no JSON, else its status and parsed body
ReturnedOrFailed(x) ==
    IF x.status = 0 THEN ~fetched.ok /\ fetched.err = "transport"
    ELSE IF x.body = "malformed" THEN ~fetched.ok /\ fetched.err = "invalid json"
    ELSE ReturnedResponse(x)

\* C1 as stated: in every call of get_json_with_bearer whose first GET is
\* answered, a 401 or 403 is followed by exactly one token POST and exactly one
\* more GET of the same URL, whose status and body are returned; any other
\* status is returned with its body, without a token POST and without a second GET.
C1_AsStated ==
    (fetched.called /\ GetsIn(log) # {} /\ log[FirstGet(log)].status # 0) =>
        LET i == FirstGet(log)
        IN  IF Rejected(log[i])
            THEN /\ Cardinality(PostsAfter(log, i)) = 1
                 /\ Cardinality(GetsIn(log)) = 2
                 /\ Len(log) = i + 2
                 /\ log[i + 2].m = "GET"
                 /\ log[i + 2].url = log[i].url
                 /\ ReturnedResponse(log[i + 2])
            ELSE /\ PostsAfter(log, i) = {}
                 /\ Cardinality(GetsIn(log)) = 1
                 /\ ReturnedResponse(log[i])

\* C1, amended: in every call of get_json_with_bearer whose first GET is
\* answered, a 401 or 403 is followed by exactly one token POST, directly after
\* it; when that POST fails the call fails with its error and issues no second
\* GET; when it succeeds exactly one more GET of the same URL follows, and the
\* call returns that response's status and parsed body whatever the status is,
\* or fails when the connection fails or the body is no JSON.  After any other
\* first status there is no token POST and no second GET, and the call returns
\* that status with the parsed body, or fails when the body is no JSON.
C1_RefreshOnce ==
    (fetched.called /\ GetsIn(log) # {} /\ log[FirstGet(log)].status # 0) =>
        LET i == FirstGet(log)
        IN  IF Rejected(log[i])
            THEN /\ PostsAfter(log, i) = {i + 1}
                 /\ IF log[i + 1].token = None
                    THEN /\ Len(log) = i + 1
                         /\ ~fetched.ok
                         /\ fetched.err \in {"transport", "auth failed", "invalid auth json"}
                    ELSE /\ Len(log) = i + 2
                         /\ log[i + 2].m = "GET"
                         /\ log[i + 2].url = log[i].url
                         /\ ReturnedOrFailed(log[i + 2])
            ELSE /\ Len(log) = i
                 /\ ReturnedOrFailed(log[i])

\* the first GET was answered 401 or 403, the token was refreshed, the second
\* GET was rejected again and its status was returned
C1_Witness ==
    /\ fetched.called
    /\ Len(log) >= 3
    /\ Rejected(log[Len(log) - 2])
    /\ log[Len(log) - 1].token # None
    /\ log[Len(log)].m = "GET"
    /\ Rejected(log[Len(log)])
    /\ ReturnedResponse(log[Len(log)])

\* C2: once the API has answered a page request of a listing scan with fewer
\* than Take elements, no call of iter_scan on that scan issues a request: it
\* hands out the next element of the page while there is one, and reports the
\* end of the data from then on.  A begin_scan whose first GET for Take = 10 is
\* answered with 7 elements issues that one GET, for Skip = 0, and the scan is
\* one that has seen a short page.
C2_NoRequestAfterShortPage ==
    [][/\ (history.shortSeen /\ op'.name = "next") =>
             /\ log' = <<>>
             /\ scan'.kind = "DataServices"
             /\ scan'.page_rows = scan.page_rows
             /\ history'.shortSeen
             /\ IF scan.page_idx < Len(scan.page_rows)
                THEN \/ ~op'.ok /\ sink'.bad # "" /\ scan'.page_idx = scan.page_idx
                     \/ op'.ok /\ op'.out = "row" /\ scan'.page_idx = scan.page_idx + 1
                ELSE op'.ok /\ op'.out = "end" /\ scan'.page_idx = scan.page_idx
       /\ (/\ op'.name = "begin"
           /\ GetsIn(log') # {}
           /\ log'[FirstGet(log')].url.path = "/v2/DataService"
           /\ TakeOf(log'[FirstGet(log')].url) = DEFAULT_TAKE
           /\ log'[FirstGet(log')].status = 200
           /\ log'[FirstGet(log')].items = 7) =>
             /\ Cardinality(GetsIn(log')) = 1
             /\ SkipOf(log'[FirstGet(log')].url) = 0
             /\ op'.ok
             /\ history'.shortSeen
             /\ history'.pages = 1]_vars

\* a scan with Take = 10 got 7 elements, handed them out and reported the end
\* of the data without a request
C2_Witness ==
    /\ scan.kind = "DataServices"
    /\ scan.params.take = DEFAULT_TAKE
    /\ Len(scan.page_rows) = 7
    /\ history.shortSeen
    /\ history.pages = 1
    /\ op.name = "next"
    /\ op.out = "end"
    /\ log = <<>>

\* ceil(n / d) for n >= 0, d > 0
CeilDiv(n, d) == (n + d - 1) \div d

\* the scan state held is a listing scan on a fixed data set
ListingOnFixed == upstream.fixed /\ scan.kind = "DataServices"

\* C3 as stated: a listing scan on a data set of totalRows elements is done
\* after at most ceil(totalRows / take) page fetches, the one of begin_scan
\* included.
C3_AsStated ==
    ListingOnFixed =>
        /\ history.pages <= CeilDiv(upstream.totalRows, scan.params.take)
        /\ history.pages = CeilDiv(upstream.totalRows, scan.params.take) => scan.done

\* C3, amended: a listing scan on a data set of totalRows elements is done
\* after floor(totalRows / take) + 1 delivered pages, the one of begin_scan
\* included, and not before; no page is delivered to it after that.
C3_FloorPlusOne ==
    ListingOnFixed =>
        /\ history.pages <= (upstream.totalRows \div scan.params.take) + 1
        /\ scan.done <=> history.pages = (upstream.totalRows \div scan.params.take) + 1

\* a data set of 4 elements was read with Take = 2 to its end: three pages,
\* where ceil(4 / 2) = 2
C3_Witness ==
    /\ ListingOnFixed
    /\ upstream.totalRows = 4
    /\ scan.params.take = 2
    /\ history.pages = 3
    /\ scan.done
    /\ op.out = "end"

\* C4: a call in which a page was loaded leaves done set exactly if the page
\* has fewer elements than Take, and skip raised by Take exactly if it has not
\* (else unchanged); done stays set until begin_scan replaces the scan or
\* end_scan ends it; and skip is always Take times the number of full pages
\* the scan was delivered.
C4_PageCursor ==
    [][/\ (op'.name \in {"begin", "next"} /\ PageDelivered(log')) =>
             LET x == log'[Len(log')]
                 before == IF op'.name = "begin" THEN 0 ELSE scan.skip
             IN  /\ scan'.kind = "DataServices"
                 /\ SkipOf(x.url) = before
                 /\ scan'.done <=> x.items < scan'.params.take
                 /\ scan'.skip = IF x.items < scan'.params.take THEN before
                                 ELSE before + scan'.params.take
                 /\ Len(scan'.page_rows) = x.items
       /\ (scan.kind = "DataServices" /\ scan.done /\ op'.name # "end"
           /\ ~(op'.name = "begin" /\ op'.ok)) =>
             scan'.kind = "DataServices" /\ scan'.done /\ scan'.skip = scan.skip
       /\ scan'.kind = "DataServices" =>
             /\ scan'.skip = scan'.params.take * history'.fullPages
             /\ scan'.done <=> history'.shortSeen]_vars

\* a scan was delivered two full pages and then a short one
C4_Witness ==
    /\ scan.kind = "DataServices"
    /\ history.fullPages = 2
    /\ history.pages = 3
    /\ scan.skip = 2 * scan.params.take
    /\ scan.done

\* C5: a call with a token in the cache starts with a GET that carries it, and
\* a call without one starts with a token POST, whose token is cached and
\* carried by the GET after it; a token POST is issued only first in a call
\* that found the cache empty, or directly after a GET answered 401 or 403;
\* no call of begin_scan, iter_scan or end_scan empties the cache.
C5_PostOnlyWhenNeeded ==
    [][/\ \A i \in PostsIn(log') :
             \/ i = 1 /\ cached_token = None
             \/ i > 1 /\ log'[i - 1].m = "GET" /\ Rejected(log'[i - 1])
       /\ (cached_token # None /\ log' # <<>>) =>
             log'[1].m = "GET" /\ log'[1].bearer = cached_token
       /\ (cached_token = None /\ log' # <<>>) =>
             /\ log'[1].m = "POST"
             /\ log'[1].token = None => (Len(log') = 1 /\ cached_token' = None)
             /\ log'[1].token # None =>
                   /\ Len(log') >= 2
                   /\ log'[2].m = "GET"
                   /\ log'[2].bearer = log'[1].token
                   /\ Len(log') = 2 => cached_token' = log'[1].token
       /\ cached_token # None => cached_token' # None]_vars

\* a call found a token in the cache and sent its GET with it, without a POST
C5_Witness ==
    /\ op.name = "next"
    /\ log # <<>>
    /\ PostsIn(log) = {}
    /\ log[1].bearer = cached_token
    /\ cached_token # None

\* C6: when a GET is answered 401 or 403 and the token POST after it succeeds,
\* the cache holds the token that POST issued and no longer the rejected one,
\* and the GET after it carries the issued token; every GET carries the token
\* issued last, and the cache always holds it.
C6_RefreshReplaces ==
    [][/\ \A i \in GetsIn(log') :
             (Rejected(log'[i]) /\ i < Len(log') /\ log'[i + 1].token # None) =>
                 /\ cached_token' = log'[i + 1].token
                 /\ cached_token' # log'[i].bearer
                 /\ Len(log') = i + 2
                 /\ log'[i + 2].m = "GET"
                 /\ log'[i + 2].bearer = log'[i + 1].token
       /\ \A i \in GetsIn(log') :
             log'[i].bearer = IssuedAfter(history.issued, SubSeq(log', 1, i - 1))
       /\ cached_token' = history'.issued]_vars

\* a token was rejected, the token POST issued another one, the GET was sent
\* again with that one and succeeded, and the cache holds it
C6_Witness ==
    /\ Len(log) >= 3
    /\ Rejected(log[Len(log) - 2])
    /\ log[Len(log) - 1].token # None
    /\ log[Len(log)].m = "GET"
    /\ log[Len(log)].bearer = log[Len(log) - 1].token
    /\ log[Len(log) - 2].bearer # cached_token
    /\ cached_token = log[Len(log) - 1].token
    /\ op.ok

\* C7 as stated: whatever scan state is held before it, after a call of
\* begin_scan nothing of that scan state is left: the state is the one the
\* call built or there is none, and no later iter_scan returns a row of the
\* scan that was held before the call.
C7_AsStated ==
    [][/\ (op'.name = "begin" /\ ~op'.ok) => scan' = ScanNone
       /\ (history.predates /\ op'.name = "next") => op'.out # "row"]_vars

\* C8 as stated, for a scan that begin_scan has built: once a call of
\* iter_scan on it has failed, no later call of iter_scan on it returns a row.
C8_AsStated ==
    [][(history.failed /\ ~history.predates /\ op'.name = "next") => op'.out # "row"]_vars

\* the leaves of the document described by d, as paths <<r, g, c, l>>: leaf l
\* of cluster c of package g of product r; a node without its list has none
LeafSet(d) ==
    {p \in (1..d.roots) \X (1..d.groups) \X (1..d.subs) \X (1..d.leaves) :
        /\ "packages" \notin Omitted(d, p[1]) /\ p[2] <= Kids(d, d.groups, p[1])
        /\ "clusters" \notin Omitted(d, p[2]) /\ p[3] <= Kids(d, d.subs, p[2])
        /\ "fieldDefinitions" \notin Omitted(d, p[3]) /\ p[4] <= Kids(d, d.leaves, p[3])}

\* q comes before p in document order
Before(q, p) ==
    \E i \in 1..4 : q[i] < p[i] /\ \A j \in 1..(i - 1) : q[j] = p[j]

\* the place of leaf p in document order
Rank(d, p) == 1 + Cardinality({q \in LeafSet(d) : Before(q, p)})

\* the text the loader makes of the productId of product r
ProductIdText(r) == IF r % 2 = 1 THEN <<"P">> \o Digits(r) ELSE Digits(r)

\* row carries the ids of the product, package and cluster that hold leaf p,
\* and the id of the leaf, wherever the document gives the id
CarriesLineage(d, row, p) ==
    /\ "productId" \notin Omitted(d, p[1]) =>
          row.product_id = ProductIdText(p[1]) /\ row.product_id # <<>>
    /\ "packageId" \notin Omitted(d, p[2]) =>
          row.package_id = Some(PackageIdAt(p[1], p[2]))
    /\ "fieldClusterId" \notin Omitted(d, p[3]) =>
          row.field_cluster_id = Some(FieldClusterIdAt(p[1], p[2], p[3]))
    /\ "fieldId" \notin Omitted(d, p[4]) =>
          row.field_id = Some(FieldIdAt(p[1], p[2], p[3], p[4]))

\* C9: the rows the tree loader builds are as many as the document has leaves,
\* a missing list counting as empty; the row at the place a leaf has in
\* document order carries the ids of the product, package and cluster that
\* hold the leaf; and iter_scan hands the rows out unchanged, one by one in
\* that order, and reports the end of the data after the last.
C9_OneRowPerLeaf ==
    [][/\ op'.name = "begin" =>
             /\ op'.ok
             /\ scan'.kind = "FieldMappingDefinitions"
             /\ scan'.idx = 0
             /\ Len(scan'.rows) = Cardinality(LeafSet(upstream.doc))
             /\ \A p \in LeafSet(upstream.doc) :
                   CarriesLineage(upstream.doc, scan'.rows[Rank(upstream.doc, p)], p)
       /\ (op'.name = "next" /\ scan.kind = "FieldMappingDefinitions") =>
             /\ scan'.kind = "FieldMappingDefinitions"
             /\ scan'.rows = scan.rows
             /\ op'.out = "row" =>
                   /\ scan.idx < Len(scan.rows)
                   /\ scan'.idx = scan.idx + 1
                   /\ sink'.cells # <<>>
                   /\ \A i \in 1..Len(sink'.cells) :
                         sink'.cells[i] =
                            FieldMappingCell(scan.rows[scan.idx + 1], AllFieldMappingColumns[i])
             /\ op'.out # "row" => scan'.idx = scan.idx
             /\ op'.out = "end" <=> scan.idx = Len(scan.rows)]_vars

\* a document of two products with uneven numbers of packages, clusters and
\* leaves was flattened and handed out to its last row
C9_Witness ==
    /\ scan.kind = "FieldMappingDefinitions"
    /\ upstream.doc.taper
    /\ upstream.doc.roots = 2
    /\ Len(scan.rows) >= 4
    /\ scan.idx = Len(scan.rows)
    /\ op.out = "row"

\* the member of the document a column is read from, and the level of its node
\* (1 product, 2 package, 3 cluster, 4 leaf)
MemberOf(col) ==
    CASE col = "product_id" -> <<"productId", 1>>
      [] col = "product_name" -> <<"productName", 1>>
      [] col = "package_id" -> <<"packageId", 2>>
      [] col = "package_name" -> <<"packageName", 2>>
      [] col = "field_cluster_id" -> <<"fieldClusterId", 3>>
      [] col = "field_cluster_name" -> <<"fieldClusterName", 3>>
      [] col = "field_id" -> <<"fieldId", 4>>
      [] col = "field_name" -> <<"fieldName", 4>>
      [] col = "field_type" -> <<"fieldType", 4>>
      [] col = "field_length" -> <<"fieldLength", 4>>
      [] col = "possible_values" -> <<"possibleValues", 4>>
      [] OTHER -> <<col, 4>>

\* the document described by d lacks the member of column col on the path p
Missing(d, p, col) == MemberOf(col)[1] \in Omitted(d, p[MemberOf(col)[2]])

\* C10 as stated: in every row the tree loader built, a field whose member is
\* missing in the document, in the leaf or in the product, package or cluster
\* above it, is absent: the host gets no value for its column.
C10_AsStated ==
    scan.kind = "FieldMappingDefinitions" =>
        \A p \in LeafSet(upstream.doc) : \A col \in FieldMappingColumns :
            Missing(upstream.doc, p, col) =>
                FieldMappingCell(scan.rows[Rank(upstream.doc, p)], col) = None

\* the page requests of the exchange l, as indices, and their Skip values
ListingGets(l) == {i \in GetsIn(l) : l[i].url.path = "/v2/DataService"}
SkipsIn(l) == {SkipOf(l[i].url) : i \in ListingGets(l)}

\* C11 as stated, for the page requests of one call and of two calls in a
\* row on the same listing scan: each is for a larger Skip than the one before.
C11_AsStated ==
    [][(op'.name \in {"begin", "next"}) =>
         /\ \A i, j \in ListingGets(log') :
               i < j => SkipOf(log'[i].url) < SkipOf(log'[j].url)
         /\ (op'.name = "next" /\ scan.kind = "DataServices" /\ ~history.predates
             /\ op.name \in {"begin", "next"}) =>
               \A i \in ListingGets(log) : \A j \in ListingGets(log') :
                   SkipOf(log[i].url) < SkipOf(log'[j].url)]_vars

\* C11, amended: the pages the API delivers to a listing scan are those for
\* Skip = 0, take, 2 * take, ... in this order, each delivered once; all page
\* requests of one call are for the same Skip, the scan's skip (0 in
\* begin_scan), there are two of them only when the first was answered 401 or
\* 403, and the scan's skip never decreases.
C11_DeliveredPagesAscend ==
    [][/\ (op'.name = "begin" /\ ListingGets(log') # {}) => SkipsIn(log') = {0}
       /\ (op'.name = "next" /\ scan.kind = "DataServices") =>
             /\ ListingGets(log') = GetsIn(log')
             /\ SkipsIn(log') \subseteq {scan.skip}
             /\ scan'.kind = "DataServices"
             /\ scan'.skip >= scan.skip
             /\ PageDelivered(log') =>
                   /\ SkipOf(log'[Len(log')].url) = scan.params.take * history.pages
                   /\ history.pages = history.fullPages
       /\ (op'.name \in {"begin", "next"}) =>
             /\ Cardinality(ListingGets(log')) <= 2
             /\ Cardinality(ListingGets(log')) = 2 =>
                   Rejected(log'[FirstGet(log')])]_vars

\* the request for the second page was rejected with 401, sent again for the
\* same Skip after the refresh, and answered with the page
C11_Witness ==
    /\ op.name = "next"
    /\ Cardinality(ListingGets(log)) = 2
    /\ Rejected(log[FirstGet(log)])
    /\ PageDelivered(log)
    /\ SkipOf(log[Len(log)].url) = scan.params.take
    /\ SkipOf(log[FirstGet(log)].url) = scan.params.take

\* ------------------------------------------- normalize_take on its own
\* the Take texts a table definition can carry: every text of up to
\* MaxTakeLen characters over digits, signs, a blank and a letter, every
\* integer up to MaxTakeNum written with or without sign and leading zero,
\* and numbers of ten, nineteen and twenty digits
TakeAlphabet == {"0", "1", "5", "9", "-", "+", " ", "x"}
TextsOfLen(n) == [1..n -> TakeAlphabet]
Abs(n) == IF n < 0 THEN -n ELSE n
SignsOf(n) == IF n < 0 THEN {<<"-">>} ELSE IF n = 0 THEN {<<>>, <<"+">>, <<"-">>} ELSE {<<>>, <<"+">>}
TextsOf(n) == {sg \o z \o Digits(Abs(n)) : sg \in SignsOf(n), z \in {<<>>, <<"0">>}}
Nines(n) == [i \in 1..n |-> "9"]
LongTakes == {Nines(10), Nines(19), Nines(20), <<"-">> \o Nines(10), <<"-">> \o Nines(20)}
TakeTexts ==
    UNION {TextsOfLen(n) : n \in 0..MaxTakeLen}
        \cup UNION {TextsOf(n) : n \in (0 - MaxTakeNum)..MaxTakeNum}
        \cup LongTakes
TakeInputs == {None} \cup {Some(s) : s \in TakeTexts}

\* a table definition with some Take option, not yet normalised
InitTake ==
    /\ cached_token = None
    /\ scan = ScanNone
    /\ upstream = [api |-> "sound", fixed |-> TRUE, totalRows |-> 0, doc |-> JArr(<<>>),
                   nextTok |-> 1]
    /\ log = <<>>
    /\ op \in {[name |-> "take", ok |-> FALSE, err |-> "", out |-> "", raw |-> raw,
                take |-> 0] : raw \in TakeInputs}
    /\ sink = NoCells
    /\ fetched = NotCalled
    /\ history = NoHistory(None)
    /\ lock = None
    /\ callers = <<>>

\* take: Self::normalize_take(opts.get("Take"))
NormalizeTake ==
    /\ op.name = "take"
    /\ ~op.ok
    /\ op' = [op EXCEPT !.ok = TRUE, !.take = normalize_take(op.raw)]
    /\ UNCHANGED <<cached_token, scan, upstream, log, sink, fetched, history, lock, callers>>

NextTake == NormalizeTake

SpecTake == InitTake /\ [][NextTake]_vars

\* a text that is no integer: no digit at all, or a character other than a
\* digit after the optional sign
NotAnInteger(s) ==
    LET digits == IF s # <<>> /\ s[1] \in {"+", "-"} THEN Tail(s) ELSE s
    IN  digits = <<>> \/ \E i \in 1..Len(digits) : digits[i] \notin {"0", "1", "2", "3", "4", "5", "6", "7", "8", "9"}

\* C12: the effective take is 10 when Take is missing, is no integer or is
\* less than 1, it is n for 1 <= n < 10 and 10 for n >= 10 (however n is
\* written), so it always lies in 1..10.
C12_NormalizeTake ==
    (op.name = "take" /\ op.ok) =>
        /\ op.take \in 1..10
        /\ op.raw = None => op.take = 10
        /\ (op.raw # None /\ NotAnInteger(op.raw[1])) => op.take = 10
        /\ (op.raw # None /\ op.raw[1] \in LongTakes) => op.take = 10
        /\ \A n \in (0 - MaxTakeNum)..MaxTakeNum :
              (op.raw # None /\ op.raw[1] \in TextsOf(n)) =>
                  op.take = (IF n < 1 THEN 10 ELSE IF n < 10 THEN n ELSE 10)

\* Take = "+05" has been normalised to 5
C12_Witness ==
    /\ op.name = "take"
    /\ op.ok
    /\ op.raw = Some(<<"+", "0", "5">>)
    /\ op.take = 5

\* C13 as stated, for the next calls that end on an unsupported column: the
\* call has failed, no cell has been pushed to the row sink, and the index of
\* the scan has not moved on.
C13_AsStated ==
    [][(op'.name = "next" /\ sink'.bad # "") =>
         /\ ~op'.ok
         /\ sink'.cells = <<>>
         /\ scan'.kind = scan.kind
         /\ scan.kind = "DataServices" => scan'.page_idx <= scan.page_idx
         /\ scan.kind = "FieldMappingDefinitions" => scan'.idx = scan.idx]_vars

\* C14: the scan state is always one of inactive, listing in progress and
\* tree in progress; end_scan makes it inactive whatever it was; a next call
\* in the inactive state returns end-of-data, sends no HTTP request and
\* changes neither the scan state nor the cached token.
C14_ScanStates ==
    /\ scan = ScanNone
    /\ [][/\ scan'.kind \in {"None", "DataServices", "FieldMappingDefinitions"}
          /\ scan'.kind = "None" => scan' = ScanNone
          /\ op'.name = "end" => (op'.ok /\ scan' = ScanNone)
          /\ (op'.name = "next" /\ scan = ScanNone) =>
                /\ op'.ok
                /\ op'.out = "end"
                /\ log' = <<>>
                /\ sink' = NoCells
                /\ scan' = ScanNone
                /\ cached_token' = cached_token]_vars

\* a next call on the inactive state after a scan that fetched a token was ended
C14_Witness ==
    /\ op.name = "next"
    /\ op.out = "end"
    /\ scan = ScanNone
    /\ cached_token # None
    /\ log = <<>>

\* ------------------------------------------------ begin_scan by endpoint
\* the values of the table option endpoint: the two resources, and names
\* that are neither (one differs from a resource by case, one by a letter)
UnknownEndpoints == {"Bogus", "dataservices", "", "FieldMappingDefinition"}
EndpointChoices == {"DataServices", "FieldMappingDefinitions"} \cup UnknownEndpoints

\* the host begins a scan of a table defined with some endpoint
BeginEndpoint ==
    \E e \in EndpointChoices : Begin([endpoint |-> e, ProductId |-> ProductABC])

NextEndpoint == BeginEndpoint \/ EndScan

SpecEndpoint == Init /\ [][NextEndpoint]_vars

\* C15: begin_scan with an endpoint that is none of the resources fails with
\* an error that names the endpoint, sends no HTTP request (the exchange log of
\* the call is empty) and leaves the cached token as it was.
C15_UnknownEndpoint ==
    [][\A e \in UnknownEndpoints :
          Begin([endpoint |-> e, ProductId |-> ProductABC]) =>
              /\ op'.name = "begin"
              /\ ~op'.ok
              /\ op'.err = "unknown endpoint: " \o e
              /\ log' = <<>>
              /\ PostsIn(log') = {}
              /\ GetsIn(log') = {}
              /\ cached_token' = cached_token]_vars

\* begin_scan with endpoint "dataservices" has failed while a token is cached
C15_Witness ==
    /\ op.name = "begin"
    /\ ~op.ok
    /\ op.err = "unknown endpoint: dataservices"
    /\ cached_token # None
    /\ log = <<>>

\* C16 as stated: a call of get_json_with_bearer makes at most 3 HTTP round
\* trips, token POSTs and GETs together, whatever the token cache held.
C16_AsStated == fetched.called => Len(log) <= 3

\* C16, amended: a call of get_json_with_bearer makes at most 4 round trips,
\* at most 2 token POSTs and at most 2 GETs; at most 3, with at most 1 token
\* POST, when a token is cached as the call starts; and 4 only when the cache
\* is empty and the first GET is answered 401 or 403.
C16_AtMostFour ==
    [][fetched'.called =>
         /\ Len(log') <= 4
         /\ Cardinality(PostsIn(log')) <= 2
         /\ Cardinality(GetsIn(log')) <= 2
         /\ cached_token # None =>
               (Len(log') <= 3 /\ Cardinality(PostsIn(log')) <= 1)
         /\ Len(log') = 4 =>
               /\ cached_token = None
               /\ log'[1].m = "POST" /\ log'[2].m = "GET" /\ Rejected(log'[2])
               /\ log'[3].m = "POST" /\ log'[4].m = "GET"]_vars

\* a call that started without a token made four round trips
C16_Witness ==
    /\ fetched.called
    /\ Len(log) = 4
    /\ Cardinality(PostsIn(log)) = 2
    /\ Cardinality(GetsIn(log)) = 2

\* the Skip of the request that delivered the page a listing scan holds
SkipOfPage(sc) == IF sc.done THEN sc.skip ELSE sc.skip - sc.params.take

\* the cells of the columns entityId, entityName, fields of element k of the
\* data set
CellsOfItem(k) ==
    << Some(CellString(<<"E">> \o Digits(k))),
       IF k % 2 = 0 THEN None ELSE Some(CellString(<<"N">> \o Digits(k))),
       Some(CellJsonb(JObj([score |-> JNum(k)]))) >>

\* C17: the successful next calls of a listing scan return the elements of
\* the fetched pages one by one in array order: while the page held has an
\* element left, next returns it without a request; when it has none and the
\* scan is not done, next fetches the next page, holds exactly its elements
\* and returns the first; it returns end-of-data only when the page held is
\* used up and the scan is done.  On a fixed data set read without a failure
\* the k-th row is element k, and end-of-data comes after the last element.
C17_RowsInOrder ==
    [][(op'.name = "next" /\ scan.kind = "DataServices" /\ op'.ok) =>
         /\ scan'.kind = "DataServices"
         /\ scan.page_idx < Len(scan.page_rows) =>
               /\ log' = <<>>
               /\ op'.out = "row"
               /\ scan'.page_rows = scan.page_rows
               /\ scan'.page_idx = scan.page_idx + 1
         /\ (scan.page_idx >= Len(scan.page_rows) /\ ~scan.done) =>
               /\ PageDelivered(log')
               /\ scan'.page_rows
                     = ListingPage(SkipOf(log'[Len(log')].url), log'[Len(log')].items).v
               /\ scan'.page_idx = (IF op'.out = "row" THEN 1 ELSE 0)
               /\ op'.out = "end" <=> scan'.page_rows = <<>>
         /\ (scan.page_idx >= Len(scan.page_rows) /\ scan.done) =>
               /\ log' = <<>>
               /\ op'.out = "end"
               /\ scan' = scan
         /\ op'.out = "row" =>
               /\ scan'.page_idx \in 1..Len(scan'.page_rows)
               /\ Len(sink'.cells) = 3
               /\ sink'.cells[1]
                     = Some(CellString(AsStr(Get(scan'.page_rows[scan'.page_idx],
                                                 "entityId"))[1]))
         /\ op'.out = "end" =>
               /\ scan'.done
               /\ scan'.page_idx >= Len(scan'.page_rows)
               /\ sink' = NoCells
         /\ (upstream.fixed /\ ~history.failed /\ ~history.predates) =>
               /\ op'.out = "row" =>
                     sink'.cells = CellsOfItem(SkipOfPage(scan') + scan'.page_idx)
               /\ op'.out = "end" =>
                     SkipOfPage(scan') + Len(scan'.page_rows) = upstream.totalRows]_vars

\* the first element of the second page of a data set of four, read in pages
\* of two, has been returned after a request that fetched that page
C17_Witness ==
    /\ op.name = "next"
    /\ op.ok
    /\ op.out = "row"
    /\ scan.kind = "DataServices"
    /\ scan.params.take = 2
    /\ upstream.fixed
    /\ ~history.failed
    /\ PageDelivered(log)
    /\ SkipOf(log[Len(log)].url) = 2
    /\ scan.page_idx = 1
    /\ sink.cells = CellsOfItem(3)

\* ------------------------------------------------ two concurrent callers
\* Two callers call begin_scan, iter_scan and end_scan on the one instance.
\* A call takes the mutex (Lock), runs against the instance as it finds it and
\* performs its HTTP exchange (StartBegin, StartIter, StartEnd), and on return
\* has written the cached token and the scan state and drops the guard
\* (Return).  posts and gets count the requests a caller has sent, tokens the
\* tokens it was issued; seen is the instance as the running call found it.
Callers == {1, 2}

Idle == [cached |-> None, scan |-> ScanNone, op |-> [name |-> "init", ok |-> TRUE, err |-> "", out |-> ""]]

\* INSTANCE.lock(), were it to succeed whoever holds the mutex
CanLock_always(holder) == TRUE

\* INSTANCE.lock() returns once no caller holds the mutex
CanLock(holder) == holder = None

InitTwo ==
    /\ cached_token = None
    /\ scan = ScanNone
    /\ upstream \in {[api |-> "unrejecting", fixed |-> TRUE, totalRows |-> n, doc |-> d,
                      nextTok |-> 1] : n \in {0, 3}, d \in SessionDocs}
    /\ log = <<>>
    /\ op = [name |-> "init", ok |-> TRUE, err |-> "", out |-> ""]
    /\ sink = NoCells
    /\ fetched = NotCalled
    /\ history = NoHistory(None)
    /\ lock = None
    /\ callers = [c \in Callers |-> [pc |-> "idle", calls |-> 0, posts |-> 0, gets |-> 0,
                                     tokens |-> 0, pending |-> Idle, seen |-> Idle]]

\* let mut guard = INSTANCE.lock().unwrap();
Lock(c) ==
    /\ callers[c].pc = "idle"
    /\ callers[c].calls < MaxCalls
    /\ CanLock(lock)
    /\ lock' = Some(c)
    /\ callers' = [callers EXCEPT ![c].pc = "locked"]
    /\ UNCHANGED <<cached_token, scan, upstream, log, op, sink, fetched, history>>

\* caller c runs a call whose outcome is cached, scn, opr after the exchange l
Started(c, cached, scn, opr, l) ==
    /\ callers' = [callers EXCEPT ![c] =
                     [@ EXCEPT !.pc = "running",
                               !.posts = @ + Cardinality(PostsIn(l)),
                               !.gets = @ + Cardinality(GetsIn(l)),
                               !.tokens = @ + IssuedIn(l),
                               !.pending = [cached |-> cached, scan |-> scn, op |-> opr],
                               !.seen = [Idle EXCEPT !.cached = cached_token, !.scan = scan]]]
    /\ log' = l
    /\ upstream' = ApiAfter(l)
    /\ UNCHANGED <<cached_token, scan, op, sink, fetched, history, lock>>

\* the body of begin_scan, run by caller c
StartBegin(c) ==
    /\ callers[c].pc = "locked"
    /\ \E i \in {1, 2, 5} :
         LET Call(env) == begin_scan(cached_token, scan, TableOptionChoices[i], env)
             T == TransportError
         IN  \E p1 \in FirstPostAnswers(Call(Responses(T, T, T, T)).log) :
             \E g1 \in FirstGetAnswers(Call(Responses(p1, T, T, T)).log) :
             \E p2 \in SecondPostAnswers(Call(Responses(p1, g1, T, T)).log) :
             \E g2 \in SecondGetAnswers(Call(Responses(p1, g1, p2, T)).log) :
             \E r \in {Call(Responses(p1, g1, p2, g2))} :
                 Started(c, r.cached, r.scan,
                         [name |-> "begin", ok |-> r.ok, err |-> r.err, out |-> ""], r.log)

\* the body of iter_scan, run by caller c
StartIter(c) ==
    /\ callers[c].pc = "locked"
    /\ \E cols \in {<<"entityId">>, <<"product_id">>} :
         LET Call(env) == iter_scan(cached_token, scan, cols, env)
             T == TransportError
         IN  \E p1 \in FirstPostAnswers(Call(Responses(T, T, T, T)).log) :
             \E g1 \in FirstGetAnswers(Call(Responses(p1, T, T, T)).log) :
             \E p2 \in SecondPostAnswers(Call(Responses(p1, g1, T, T)).log) :
             \E g2 \in SecondGetAnswers(Call(Responses(p1, g1, p2, T)).log) :
             \E r \in {Call(Responses(p1, g1, p2, g2))} :
                 Started(c, r.cached, r.scan,
                         [name |-> "next", ok |-> r.ok, err |-> r.err, out |-> r.out], r.log)

\* the body of end_scan, run by caller c
StartEnd(c) ==
    /\ callers[c].pc = "locked"
    /\ Started(c, cached_token, end_scan(scan),
               [name |-> "end", ok |-> TRUE, err |-> "", out |-> ""], <<>>)

\* the call of caller c returns: the instance is as the call left it, and the
\* guard is dropped
Return(c) ==
    /\ callers[c].pc = "running"
    /\ cached_token' = callers[c].pending.cached
    /\ scan' = callers[c].pending.scan
    /\ op' = callers[c].pending.op
    /\ lock' = None
    /\ callers' = [callers EXCEPT ![c] =
                     [@ EXCEPT !.pc = "idle", !.calls = @ + 1, !.pending = Idle,
                               !.seen = Idle]]
    /\ UNCHANGED <<upstream, log, sink, fetched, history>>

NextTwo ==
    \E c \in Callers :
        Lock(c) \/ StartBegin(c) \/ StartIter(c) \/ StartEnd(c) \/ Return(c)

SpecTwo == InitTwo /\ [][NextTwo]_vars

TotalPosts == callers[1].posts + callers[2].posts
TotalGets == callers[1].gets + callers[2].gets
TotalTokens == callers[1].tokens + callers[2].tokens

\* C18 as stated: with two callers, an empty cache at the start and an API
\* that never answers 401 or 403, one token POST is sent in total, so never
\* more than one.
C18_AsStated == TotalPosts <= 1

\* C18, amended: with two callers, an empty cache at the start and an API that
\* never answers 401 or 403, the calls never overlap: the mutex is held by
\* exactly the caller whose call is under way, and a running call finds on
\* return the cached token and the scan state it started from.  A token POST
\* is sent only by a call that found the cache empty, one per call; all the
\* calls together are issued at most one token, exactly one once a GET has
\* been sent; and they send exactly one token POST once a GET has been sent
\* unless a token POST has failed.
C18_OneTokenUnderLock ==
    /\ \A c \in Callers : (callers[c].pc \in {"locked", "running"}) <=> (lock = Some(c))
    /\ \A c \in Callers :
          callers[c].pc = "running" =>
              /\ cached_token = callers[c].seen.cached
              /\ scan = callers[c].seen.scan
              /\ Cardinality(PostsIn(log)) <= 1
              /\ PostsIn(log) # {} => callers[c].seen.cached = None
    /\ TotalTokens <= 1
    /\ TotalTokens <= TotalPosts
    /\ (TotalGets > 0 \/ cached_token # None) => TotalTokens = 1
    /\ (TotalGets > 0 /\ TotalPosts = TotalTokens) => TotalPosts = 1

\* each caller has begun a scan that sent a request; the first one fetched the
\* token, the other one found it cached
C18_Witness ==
    /\ callers[1].calls >= 1
    /\ callers[2].calls >= 1
    /\ callers[1].posts = 1
    /\ callers[1].gets >= 1
    /\ callers[2].posts = 0
    /\ callers[2].gets >= 1
    /\ lock = None

\* the call of get_json_with_bearer with the exchange l had its first GET
\* rejected and its refresh answered with a status that is no 2xx or with a
\* body that is no TokenResponse
RefreshFailed(l) ==
    /\ GetsIn(l) # {}
    /\ Rejected(l[FirstGet(l)])
    /\ Len(l) > FirstGet(l)
    /\ l[FirstGet(l) + 1].m = "POST"
    /\ l[FirstGet(l) + 1].status # 0
    /\ l[FirstGet(l) + 1].token = None

\* C19 as stated: when the first GET is answered 401 or 403 and the refresh
\* fails, the call fails with the authentication error, sends no second GET
\* and no further token POST, and the cache holds what it held before the call.
C19_AsStated ==
    [][(fetched'.called /\ RefreshFailed(log')) =>
         /\ ~fetched'.ok
         /\ fetched'.err \in {"auth failed", "invalid auth json"}
         /\ Len(log') = FirstGet(log') + 1
         /\ cached_token' = cached_token]_vars

\* C19, amended: when the first GET is answered 401 or 403 and the refresh
\* fails, the call fails with the authentication error, sends no second GET
\* and no further token POST, and the cache holds the token the first GET was
\* sent with: the one cached before the call, or the one the call fetched
\* before its first GET when the cache was empty.
C19_FailedRefreshKeepsToken ==
    [][(fetched'.called /\ RefreshFailed(log')) =>
         /\ ~fetched'.ok
         /\ fetched'.err \in {"auth failed", "invalid auth json"}
         /\ ~op'.ok
         /\ op'.err = fetched'.err
         /\ Len(log') = FirstGet(log') + 1
         /\ Cardinality(GetsIn(log')) = 1
         /\ cached_token' = log'[FirstGet(log')].bearer
         /\ cached_token' # None
         /\ cached_token # None => (cached_token' = cached_token /\ FirstGet(log') = 1)
         /\ cached_token = None =>
               (FirstGet(log') = 2 /\ cached_token' = log'[1].token)]_vars

\* a call that started with a cached token had its GET rejected and its
\* refresh answered 500: it failed, and the token is still cached
C19_Witness ==
    /\ fetched.called
    /\ RefreshFailed(log)
    /\ Len(log) = 2
    /\ log[2].status = 500
    /\ ~op.ok
    /\ op.err = "auth failed"
    /\ cached_token = log[1].bearer

\* the errors load_dataservices_page returns: those of the token fetch, of the
\* connection, of a body that is no JSON, of a status that is no 2xx and of a
\* body that is no array
LoadErrors ==
    {"transport", "auth failed", "invalid auth json", "invalid json", "DataServices failed",
     "DataServices response not an array"}

\* C20: a call whose page load fails leaves the scan state as it was: the
\* variant, and for a listing scan skip, the page held, the index in it and
\* the done flag.
C20_FailedLoadKeepsCursor ==
    [][(op'.name \in {"begin", "next"} /\ ~op'.ok /\ op'.err \in LoadErrors) =>
         /\ scan'.kind = scan.kind
         /\ scan.kind = "DataServices" =>
               /\ scan'.skip = scan.skip
               /\ scan'.page_rows = scan.page_rows
               /\ scan'.page_idx = scan.page_idx
               /\ scan'.done = scan.done
               /\ scan'.params = scan.params
         /\ scan' = scan]_vars

\* the load of a further page of a listing scan has failed on a body that is
\* no array, with the page held used up
C20_Witness ==
    /\ op.name = "next"
    /\ ~op.ok
    /\ op.err = "DataServices response not an array"
    /\ scan.kind = "DataServices"
    /\ scan.page_rows # <<>>
    /\ scan.page_idx = Len(scan.page_rows)
    /\ scan.skip > 0
    /\ ~scan.done

====
